---- MODULE Spec2Model ----
(***************************************************************************)
(* Model of src-tauri/src/minecraft/version.rs of the NoRisk client        *)
(* launcher: the version-profile inheritance merge, the argument builders  *)
(* of the two argument schemas, and the download-and-verify routines for   *)
(* libraries, asset objects and cosmetic assets.                           *)
(*                                                                         *)
(* Five specifications share the variables; each one drives one part of    *)
(* the file and leaves the other parts switched off:                       *)
(*   SpecMerge    VersionProfile::merge along an ancestor chain            *)
(*   SpecArgs     ArgumentDeclaration::add_game_args_to_vec and            *)
(*                ::add_jvm_args_to_vec                                    *)
(*   SpecLibrary  LibraryDownloadInfo::download, one await per step        *)
(*   SpecAsset    AssetObject::download, one await per step                *)
(*   SpecAcquire  any one of the three download routines: the two above    *)
(*                or AssetObject::download_norisk_cosmetic                 *)
(*                                                                         *)
(* Option<T> is a sequence of length at most one: None is <<>>, Some(v) is *)
(* <<v>>.  Network operations may fail; operations on the local file       *)
(* system are taken to succeed.                                            *)
(***************************************************************************)
EXTENDS Integers, Sequences, FiniteSets, TLC

\* ---- bounds ----
\* longest library / argument list of one profile document
MaxLen == 2
\* longest ancestor chain walked by repeated merges
MaxDepth == 2
\* number of distinct file contents (artifact bodies) considered
MaxContent == 3
\* number of consecutive download calls for the same library descriptor
MaxCalls == 2
\* longest Legacy argument string, in characters
MaxStrLen == 4

VARIABLES
    \* VersionProfile::merge
    child,      \* the profile being resolved (&mut self)
    pre,        \* its value before the last merge
    par,        \* the parent handed to the last merge
    mres,       \* result of the last merge: "None" (no merge yet), "Ok", "Err"
    depth,      \* number of ancestors merged so far
    rep,        \* TRUE when the last merge repeated the previous parent
    \* LibraryDownloadInfo::download
    desc,       \* the descriptor (self); only its sha1 field decides anything
    libFile,    \* content of library_path in the store, None when absent
    sha1File,   \* content of the .sha1 side-file in the store, None when absent
    lpc,        \* position of the running call, "idle" between calls
    lsha1,      \* the local `sha1` of the running call
    lres,       \* what the last call returned: "Ok", "Mismatch", "NetErr"
    llog,       \* network / store / progress operations of the last call
    file0,      \* libFile when the last call started
    side0,      \* sha1File when the last call started
    calls,      \* number of calls started
    pres,       \* lres of the call before the last one
    psha1,      \* lsha1 of the call before the last one
    plog,       \* llog of the call before the last one
    \* AssetObject::download, one call per task
    assets,     \* task -> the AssetObject it downloads (its hash)
    dirs,       \* the shard directories that exist under the objects folder
    objs,       \* hash -> content of the object file, None when absent
    objs0,      \* objs before any task started
    apc,        \* task -> position of its call
    ares,       \* task -> what its call returned
    alog,       \* task -> network / store / progress operations of its call
    \* AssetObject::download_norisk_cosmetic
    cos,        \* the AssetObject (self); its hash
    cosDir,     \* TRUE when the parent directory of the cosmetic file exists
    cosFile,    \* content of the cosmetic file in the store, None when absent
    cpc,        \* position of the call
    cres,       \* what the call returned
    clog,       \* network / store / progress operations of the call
    \* ArgumentDeclaration::add_game_args_to_vec
    decl,       \* the ArgumentDeclaration (self)
    features,   \* the enabled features
    cmd,        \* command_arguments
    cmd0,       \* command_arguments before the call
    gres,       \* result of the call: "None" (not called yet), "Ok", "Err"
    \* ArgumentDeclaration::add_jvm_args_to_vec, on a vector that starts as cmd0
    norisk_token,   \* the bearer token
    parameter,      \* the LaunchingParameter
    jcmd,       \* command_arguments of this call
    jres        \* result of the call: "None" (not called yet), "Ok"

mergeVars == <<child, pre, par, mres, depth, rep>>
libVars == <<desc, libFile, sha1File, lpc, lsha1, lres, llog, file0, side0, calls,
             pres, psha1, plog>>

assetVars == <<assets, dirs, objs, objs0, apc, ares, alog>>
cosVars == <<cos, cosDir, cosFile, cpc, cres, clog>>
argVars == <<decl, features, cmd, cmd0, gres, norisk_token, parameter, jcmd, jres>>

\* what the actions of one part leave alone
notMerge == <<libVars, assetVars, cosVars, argVars>>
notLibrary == <<mergeVars, assetVars, cosVars, argVars>>
notAsset == <<mergeVars, libVars, cosVars, argVars>>
notCosmetic == <<mergeVars, libVars, assetVars, argVars>>
notArgs == <<mergeVars, libVars, assetVars, cosVars>>

vars == <<mergeVars, libVars, assetVars, cosVars, argVars>>

\* ---- Option<T> ----
None == <<>>
Some(v) == <<v>>
IsSome(o) == o # <<>>

\* =========================================================================
\* VersionProfile::merge
\* =========================================================================

\* ArgumentDeclaration::V14 / ::V21
V14(s) == [tag |-> "V14", minecraft_arguments |-> s]
V21(g, j) == [tag |-> "V21", game |-> g, jvm |-> j]

\* fn merge_options: keep a when it is Some, else take b
\* (faulty variant: a present parent value overrides the child's)
merge_options_parent_wins(a, b) == IF IsSome(b) THEN b ELSE a
merge_options(a, b) == IF ~IsSome(a) THEN b ELSE a

\* fn merge_larger: both Some -> replace a by b only when a < b;
\* otherwise behave like merge_options
\* (faulty variant: the comparison is reversed)
merge_larger_smaller(a, b) ==
    IF IsSome(a) /\ IsSome(b)
    THEN (IF a[1] > b[1] THEN b ELSE a)
    ELSE IF ~IsSome(a) THEN b ELSE a
merge_larger(a, b) ==
    IF IsSome(a) /\ IsSome(b)
    THEN (IF a[1] < b[1] THEN b ELSE a)
    ELSE IF ~IsSome(a) THEN b ELSE a

\* Vec::append(&mut self, &mut other): other's elements go after self's
\* (faulty variant: other's elements are put in front)
vec_append_front(a, b) == b \o a
vec_append(a, b) == a \o b

\* fn merge(&mut self, parent) -> Result<()>.  The scalar fields and the
\* library list are merged first (lines 71-80); the argument variants are
\* compared only afterwards (lines 82-98), so an Err leaves those merged.
merge(self, parent) ==
    LET s1 == [self EXCEPT
                 !.asset_index_location =
                     merge_options(self.asset_index_location, parent.asset_index_location),
                 !.assets = merge_options(self.assets, parent.assets),
                 !.minimum_launcher_version =
                     merge_larger(self.minimum_launcher_version,
                                  parent.minimum_launcher_version),
                 !.downloads = merge_options(self.downloads, parent.downloads),
                 !.compliance_level =
                     merge_larger(self.compliance_level, parent.compliance_level),
                 !.libraries = vec_append(self.libraries, parent.libraries),
                 !.main_class = merge_options(self.main_class, parent.main_class),
                 !.logging = merge_options(self.logging, parent.logging)]
        a == self.arguments
        b == parent.arguments
    IN  IF a.tag = "V14"
        THEN IF b.tag = "V14"
             THEN [profile |->
                     [s1 EXCEPT !.arguments =
                        V14(merge_options(a.minecraft_arguments, b.minecraft_arguments))],
                   res |-> "Ok"]
             ELSE [profile |-> s1, res |-> "Err"]
        ELSE IF b.tag = "V21"
             THEN [profile |->
                     [s1 EXCEPT !.arguments =
                        V21(vec_append(a.game, b.game), vec_append(a.jvm, b.jvm))],
                   res |-> "Ok"]
             ELSE [profile |-> s1, res |-> "Err"]

\* ---- profile documents fed to merge ----
\* Every value of a document carries the position g of that document in the
\* ancestor chain (0 = the requested version), so that the origin of each
\* value of the resolved profile can be told.

EmptyProfile ==
    [asset_index_location |-> None, assets |-> None,
     minimum_launcher_version |-> None, downloads |-> None,
     compliance_level |-> None, libraries |-> <<>>,
     main_class |-> None, logging |-> None, arguments |-> V14(None)]

\* the i-th entry of a list of document g
Entry(kind, g, i) == [kind |-> kind, doc |-> g, idx |-> i]
Entries(kind, g, n) == [i \in 1..n |-> Entry(kind, g, i)]

\* versions used for minimum_launcher_version / compliance_level
Levels == {3, 5, 7}

\* documents that vary the Option fields merged by merge_options
OptionDocs(g) ==
    LET v == Some(Entry("val", g, 0))
    IN  { EmptyProfile,
          [EmptyProfile EXCEPT !.asset_index_location = v],
          [EmptyProfile EXCEPT !.assets = v],
          [EmptyProfile EXCEPT !.downloads = v],
          [EmptyProfile EXCEPT !.main_class = v],
          [EmptyProfile EXCEPT !.logging = v],
          [EmptyProfile EXCEPT !.arguments = V14(v)],
          [EmptyProfile EXCEPT !.asset_index_location = v, !.assets = v,
                               !.downloads = v, !.main_class = v,
                               !.logging = v, !.arguments = V14(v)] }

\* documents that vary the two fields merged by merge_larger
LevelDocs ==
    { [EmptyProfile EXCEPT !.minimum_launcher_version = Some(x)] : x \in Levels }
    \cup { [EmptyProfile EXCEPT !.compliance_level = Some(x)] : x \in Levels }

\* documents that vary the appended lists, in both argument variants
ListDocs(g) ==
    { [EmptyProfile EXCEPT !.libraries = Entries("lib", g, n)] : n \in 1..MaxLen }
    \cup { [EmptyProfile EXCEPT !.libraries = Entries("lib", g, n),
                                !.arguments = V21(<<>>, <<>>)] : n \in 0..MaxLen }
    \cup { [EmptyProfile EXCEPT !.arguments = V21(Entries("game", g, n), <<>>)]
             : n \in 1..MaxLen }
    \cup { [EmptyProfile EXCEPT !.arguments = V21(<<>>, Entries("jvm", g, n))]
             : n \in 1..MaxLen }
    \cup { [EmptyProfile EXCEPT !.libraries = Entries("lib", g, 1),
                                !.assets = Some(Entry("val", g, 0)),
                                !.compliance_level = Some(5),
                                !.arguments = V21(Entries("game", g, MaxLen),
                                                  Entries("jvm", g, 1))] }

Profiles(g) == OptionDocs(g) \cup LevelDocs \cup ListDocs(g)

\* the parts of the program a specification does not drive stay idle; a
\* download routine that is not driven is "off", a position none of its
\* steps starts from
IdleMerge ==
    /\ child = EmptyProfile /\ pre = EmptyProfile /\ par = EmptyProfile
    /\ mres = "None" /\ depth = 0 /\ rep = FALSE

IdleLibrary ==
    /\ desc = [sha1 |-> None] /\ libFile = None /\ sha1File = None
    /\ lpc = "off" /\ lsha1 = None /\ lres = "None" /\ llog = <<>>
    /\ file0 = None /\ side0 = None /\ calls = 0
    /\ pres = "None" /\ psha1 = None /\ plog = <<>>

\* the concurrent AssetObject::download calls
Tasks == {1, 2}

IdleAsset ==
    /\ assets = <<>> /\ dirs = {} /\ objs = <<>> /\ objs0 = <<>>
    /\ apc = [t \in Tasks |-> "off"]
    /\ ares = [t \in Tasks |-> "None"]
    /\ alog = [t \in Tasks |-> <<>>]

IdleCosmetic ==
    /\ cos = [hash |-> <<>>] /\ cosDir = FALSE /\ cosFile = None
    /\ cpc = "off" /\ cres = "None" /\ clog = <<>>

IdleArgs ==
    /\ decl = V14(None) /\ features = {} /\ cmd = <<>> /\ cmd0 = <<>>
    /\ gres = "None"
    /\ norisk_token = "" /\ parameter = <<>> /\ jcmd = <<>> /\ jres = "None"

InitMerge ==
    /\ child \in Profiles(0)
    /\ pre = child
    /\ par = EmptyProfile
    /\ mres = "None"
    /\ depth = 0
    /\ rep = FALSE
    /\ IdleLibrary /\ IdleAsset /\ IdleCosmetic /\ IdleArgs

\* the resolution driver merges the next ancestor of the chain into child
MergeParent(p) ==
    /\ mres # "Err"
    /\ depth < MaxDepth
    /\ LET r == merge(child, p)
       IN  /\ child' = r.profile
           /\ mres' = r.res
    /\ pre' = child
    /\ par' = p
    /\ depth' = depth + 1
    /\ rep' = FALSE
    /\ UNCHANGED notMerge

\* the same parent document is merged a second time
Remerge ==
    /\ mres = "Ok"
    /\ ~rep
    /\ LET r == merge(child, par)
       IN  /\ child' = r.profile
           /\ mres' = r.res
    /\ pre' = child
    /\ par' = par
    /\ depth' = depth
    /\ rep' = TRUE
    /\ UNCHANGED notMerge

NextMerge ==
    \/ \E p \in Profiles(depth + 1) : MergeParent(p)
    \/ Remerge

SpecMerge == InitMerge /\ [][NextMerge]_vars

\* ---- properties of merge ----

\* the Option fields merged by merge_options, the Legacy argument string last
OptionFields(p) ==
    <<p.asset_index_location, p.assets, p.downloads, p.main_class, p.logging,
      IF p.arguments.tag = "V14" THEN p.arguments.minecraft_arguments ELSE None>>

\* the larger of the present values of two Option<i32>, None when neither is
LargerPresent(a, b) ==
    LET S == {a[i] : i \in DOMAIN a} \cup {b[i] : i \in DOMAIN b}
    IN  IF S = {} THEN None ELSE Some(CHOOSE x \in S : \A y \in S : y <= x)

VariantsDiffer == pre.arguments.tag # par.arguments.tag

\* C4: a merge of profiles of differing argument variants fails and leaves
\* every field of the child as it was before the call.
C4_MismatchLeavesChildUnmodified ==
    (mres # "None" /\ VariantsDiffer) => (mres = "Err" /\ child = pre)

\* C5: after a successful merge every Option field (and the Legacy argument
\* string) holds the child's own value when it had one and the parent's value
\* otherwise; merging the same parent again changes none of these fields.
C5_ChildWinsElseParent ==
    mres = "Ok" =>
        /\ \A i \in 1..6 :
              OptionFields(child)[i] =
                  IF IsSome(OptionFields(pre)[i]) THEN OptionFields(pre)[i]
                  ELSE OptionFields(par)[i]
        /\ rep => OptionFields(child) = OptionFields(pre)

C5_Witness ==
    /\ mres = "Ok" /\ rep
    /\ child.assets = Some(Entry("val", 0, 0))
    /\ par.assets = Some(Entry("val", 1, 0))
    /\ child.main_class = Some(Entry("val", 1, 0))
    /\ child.arguments = V14(Some(Entry("val", 1, 0)))

\* C6: merge_larger leaves the larger of two present values, the one present
\* value, or None; merge applies it to minimum_launcher_version and
\* compliance_level.
C6_MergeLargerIsMax ==
    /\ merge_larger(Some(5), None) = Some(5)
    /\ merge_larger(Some(3), Some(7)) = Some(7)
    /\ merge_larger(Some(7), Some(7)) = Some(7)
    /\ merge_larger(None, None) = None
    /\ mres # "None" =>
          /\ child.minimum_launcher_version =
                LargerPresent(pre.minimum_launcher_version, par.minimum_launcher_version)
          /\ child.compliance_level =
                LargerPresent(pre.compliance_level, par.compliance_level)

C6_Witness ==
    /\ mres = "Ok" /\ depth = 2
    /\ pre.minimum_launcher_version = Some(3)
    /\ par.minimum_launcher_version = Some(7)
    /\ child.minimum_launcher_version = Some(7)
    /\ pre.compliance_level = Some(5)
    /\ par.compliance_level = None
    /\ child.compliance_level = Some(5)

\* C7: after a successful merge the library list is the child's list followed
\* by the parent's, duplicates kept, and likewise the game and jvm lists of a
\* Structured profile; along a chain, entries of a nearer document precede
\* those of a more distant one.
C7_ParentAppendedAfterChild ==
    /\ mres = "Ok" =>
          /\ child.libraries = pre.libraries \o par.libraries
          /\ Len(child.libraries) = Len(pre.libraries) + Len(par.libraries)
          /\ child.arguments.tag = "V21" =>
                /\ child.arguments.jvm = pre.arguments.jvm \o par.arguments.jvm
                /\ child.arguments.game = pre.arguments.game \o par.arguments.game
    /\ \A i, j \in DOMAIN child.libraries :
          i < j => child.libraries[i].doc <= child.libraries[j].doc

C7_Witness ==
    /\ mres = "Ok" /\ depth = 2
    /\ child.arguments.tag = "V21"
    /\ Len(child.libraries) = 4
    /\ child.libraries[1].doc = 0
    /\ child.libraries[2].doc = 1
    /\ child.libraries[3].doc = 1
    /\ child.libraries[4].doc = 2
    /\ Len(child.arguments.game) >= 2
    /\ child.arguments.game[1].doc < child.arguments.game[Len(child.arguments.game)].doc

\* =========================================================================
\* LibraryDownloadInfo::download
\* =========================================================================

\* bodies an artifact file can have
Contents == 1..MaxContent

\* utils::sha1sum: the hex digest of a file, here three characters long.  It
\* is injective on Contents; digests of odd contents start with "aa", those
\* of even contents with "ab".
sha1sum(c) == <<"a", IF c % 2 = 1 THEN "a" ELSE "b", c>>

\* a well-formed digest that no file of the store has
ForeignDigest == sha1sum(0)

\* what a descriptor, a side-file or the <url>.sha1 endpoint can hold
Digests == {sha1sum(c) : c \in Contents} \cup {ForeignDigest}

\* lines 543-552: the checksum known without the network.  found = FALSE
\* sends the call to fetch_sha1.
\* (faulty variant: the side-file is never read)
local_sha1_ignores_side_file(d, side) ==
    IF IsSome(d.sha1) THEN [found |-> TRUE, sha1 |-> d.sha1]
    ELSE [found |-> FALSE, sha1 |-> None]
local_sha1(d, side) ==
    IF IsSome(d.sha1) THEN [found |-> TRUE, sha1 |-> d.sha1]
    ELSE IF IsSome(side) THEN [found |-> TRUE, sha1 |-> side]
    ELSE [found |-> FALSE, sha1 |-> None]

\* lines 555-565: fetch_sha1().await.map(Some).unwrap_or(None); the side-file
\* is written only for Some.  r is the response, None for a failed request.
\* unwrap_or swallows the error, so next is never "fail" (return the error).
\* (faulty variant: the fetch error is returned instead of swallowed)
fetched_sha1_propagates(r) ==
    IF IsSome(r) THEN [sha1 |-> r, next |-> "write"]
    ELSE [sha1 |-> None, next |-> "fail"]
fetched_sha1(r) ==
    IF IsSome(r) THEN [sha1 |-> r, next |-> "write"]
    ELSE [sha1 |-> None, next |-> "exists"]

\* lines 569-588: what to do about library_path before downloading
\* (faulty variants: every existing file is removed; a stale file is
\* overwritten without being removed)
existing_file_always_stale(file, sha1) ==
    IF IsSome(file) THEN "remove" ELSE "download"
existing_file_never_removed(file, sha1) ==
    IF IsSome(file)
    THEN IF IsSome(sha1)
         THEN (IF sha1sum(file[1]) = sha1[1] THEN "keep" ELSE "download")
         ELSE "keep"
    ELSE "download"
existing_file(file, sha1) ==
    IF IsSome(file)
    THEN IF IsSome(sha1)
         THEN (IF sha1sum(file[1]) = sha1[1] THEN "keep" ELSE "remove")
         ELSE "keep"
    ELSE "download"

\* lines 597-604: the check of the downloaded file
\* (faulty variant: the downloaded file is not checked)
downloaded_file_unchecked(file, sha1) == "Ok"
downloaded_file(file, sha1) ==
    IF IsSome(sha1) /\ sha1sum(file[1]) # sha1[1] THEN "Mismatch" ELSE "Ok"

InitLibrary ==
    /\ desc \in [sha1 : {None} \cup {Some(d) : d \in Digests}]
    /\ libFile \in {None} \cup {Some(c) : c \in Contents}
    /\ sha1File \in {None} \cup {Some(d) : d \in Digests}
    /\ lpc = "idle" /\ lsha1 = None /\ lres = "None" /\ llog = <<>>
    /\ file0 = libFile /\ side0 = sha1File /\ calls = 0
    /\ pres = "None" /\ psha1 = None /\ plog = <<>>
    /\ IdleMerge /\ IdleAsset /\ IdleCosmetic /\ IdleArgs

LibReturn(r) == lpc' = "idle" /\ lres' = r

\* lines 532-540: the call starts and creates the parent directories
LibStart ==
    /\ lpc = "idle" /\ calls < MaxCalls
    /\ calls' = calls + 1
    /\ file0' = libFile /\ side0' = sha1File
    /\ pres' = lres /\ psha1' = lsha1 /\ plog' = llog
    /\ llog' = <<>> /\ lsha1' = None /\ lres' = "Pending"
    /\ lpc' = "sha1"
    /\ UNCHANGED <<desc, libFile, sha1File>>
    /\ UNCHANGED notLibrary

\* lines 543-552: embedded checksum, else the side-file when there is one
LibLocalSha1 ==
    /\ lpc = "sha1"
    /\ LET k == local_sha1(desc, sha1File)
       IN  /\ lsha1' = k.sha1
           /\ lpc' = IF k.found THEN "exists" ELSE "fetch"
    /\ UNCHANGED <<desc, libFile, sha1File, lres, llog, file0, side0, calls,
                 pres, psha1, plog>>
    /\ UNCHANGED notLibrary

\* lines 555-557 and 523-530: GET <url>.sha1, which may fail
LibFetchSha1 ==
    /\ lpc = "fetch"
    /\ \E r \in {None} \cup {Some(d) : d \in Digests} :
          LET f == fetched_sha1(r)
          IN  /\ lsha1' = f.sha1
              /\ IF f.next = "fail"
                 THEN LibReturn("NetErr")
                 ELSE lpc' = f.next /\ lres' = lres
    /\ llog' = Append(llog, "fetch_sha1")
    /\ UNCHANGED <<desc, libFile, sha1File, file0, side0, calls,
                 pres, psha1, plog>>
    /\ UNCHANGED notLibrary

\* lines 560-562: fs::write(&sha1_path, &sha1)
LibWriteSha1 ==
    /\ lpc = "write"
    /\ sha1File' = lsha1
    /\ llog' = Append(llog, "write_sha1")
    /\ lpc' = "exists"
    /\ UNCHANGED <<desc, libFile, lsha1, lres, file0, side0, calls,
                 pres, psha1, plog>>
    /\ UNCHANGED notLibrary

\* lines 569-584: an existing file is kept when it matches or when no
\* checksum is known
LibCheckExisting ==
    /\ lpc = "exists"
    /\ LET v == existing_file(libFile, lsha1)
       IN  IF v = "keep" THEN LibReturn("Ok")
           ELSE lpc' = v /\ lres' = lres
    /\ UNCHANGED <<desc, libFile, sha1File, lsha1, llog, file0, side0, calls,
                 pres, psha1, plog>>
    /\ UNCHANGED notLibrary

\* lines 586-587: fs::remove_file(&library_path)
LibRemove ==
    /\ lpc = "remove"
    /\ libFile' = None
    /\ llog' = Append(llog, "remove_file")
    /\ lpc' = "download"
    /\ UNCHANGED <<desc, sha1File, lsha1, lres, file0, side0, calls,
                 pres, psha1, plog>>
    /\ UNCHANGED notLibrary

\* line 591: the progress label, then the transfer is started
LibLabel ==
    /\ lpc = "download"
    /\ llog' = Append(llog, "set_label")
    /\ lpc' = "transfer"
    /\ UNCHANGED <<desc, libFile, sha1File, lsha1, lres, file0, side0, calls,
                 pres, psha1, plog>>
    /\ UNCHANGED notLibrary

\* line 593, success: utils::download_file_untracked stores what the server
\* sent, which need not be the artifact the checksum was made of
LibTransferOk ==
    /\ lpc = "transfer"
    /\ \E c \in Contents : libFile' = Some(c)
    /\ llog' = Append(llog, "download")
    /\ lpc' = "verify"
    /\ UNCHANGED <<desc, sha1File, lsha1, lres, file0, side0, calls,
                 pres, psha1, plog>>
    /\ UNCHANGED notLibrary

\* line 593, failure: the error is returned with `?`; the destination may be
\* left as it was or hold a partial file
LibTransferFail ==
    /\ lpc = "transfer"
    /\ \E f \in {libFile} \cup {Some(c) : c \in Contents} : libFile' = f
    /\ llog' = Append(llog, "download_failed")
    /\ LibReturn("NetErr")
    /\ UNCHANGED <<desc, sha1File, lsha1, file0, side0, calls,
                 pres, psha1, plog>>
    /\ UNCHANGED notLibrary

\* lines 596-604: the downloaded file is checked against a known checksum
LibVerify ==
    /\ lpc = "verify"
    /\ LibReturn(downloaded_file(libFile, lsha1))
    /\ UNCHANGED <<desc, libFile, sha1File, lsha1, llog, file0, side0, calls,
                 pres, psha1, plog>>
    /\ UNCHANGED notLibrary

NextLibrary ==
    \/ LibStart
    \/ LibLocalSha1
    \/ LibFetchSha1
    \/ LibWriteSha1
    \/ LibCheckExisting
    \/ LibRemove
    \/ LibLabel
    \/ LibTransferOk
    \/ LibTransferFail
    \/ LibVerify

SpecLibrary == InitLibrary /\ [][NextLibrary]_vars

\* ---- properties of LibraryDownloadInfo::download ----
\* download returns Ok(library_path) whether or not it transferred anything;
\* "not downloaded" is an Ok without a transfer in llog, "downloaded" an Ok
\* after one.

LibDone == calls > 0 /\ lpc = "idle"

Count(log, E) == Cardinality({i \in DOMAIN log : log[i] \in E})
Last(log) == IF log = <<>> THEN "nothing" ELSE log[Len(log)]

TransferOps == {"download", "download_failed"}
NetworkOps == TransferOps \cup {"fetch_sha1"}

\* the file found at the start has the expected checksum
FoundValid ==
    IsSome(file0) /\ IsSome(lsha1) /\ sha1sum(file0[1]) = lsha1[1]

\* the file found at the start has another checksum than the expected one
FoundStale ==
    IsSome(file0) /\ IsSome(lsha1) /\ sha1sum(file0[1]) # lsha1[1]

\* C1 as stated: a destination that already matches the expected checksum
\* costs no network request at all, however the checksum was determined.
C1_ValidFileNoNetwork ==
    (LibDone /\ FoundValid) =>
        /\ Count(llog, NetworkOps) = 0
        /\ libFile = file0
        /\ lres = "Ok"

\* C1, amended: a destination that already matches the expected checksum is
\* never transferred, removed or changed and the call returns Ok without a
\* download; there is no network request when the checksum is embedded or in
\* the side-file, and exactly one sidecar fetch (whose answer is written to
\* the side-file) when it is in neither.
C1_ValidFileNoTransfer ==
    (LibDone /\ FoundValid) =>
        /\ libFile = file0
        /\ lres = "Ok"
        /\ IF IsSome(desc.sha1) \/ IsSome(side0)
           THEN llog = <<>> /\ sha1File = side0
           ELSE llog = <<"fetch_sha1", "write_sha1">> /\ sha1File = lsha1

C1_Witness ==
    /\ LibDone /\ FoundValid
    /\ desc.sha1 = None /\ side0 = None
    /\ llog = <<"fetch_sha1", "write_sha1">>
    /\ lres = "Ok"

\* the stale file is removed first, then exactly one transfer is made
RemovedThenOneTransfer ==
    /\ Count(llog, {"remove_file"}) = 1
    /\ Count(llog, TransferOps) = 1
    /\ \E i, j \in DOMAIN llog :
          i < j /\ llog[i] = "remove_file" /\ llog[j] \in TransferOps

\* C2 as stated (granting that the transfer itself does not fail): a stale
\* destination is deleted, downloaded once, and the call returns "downloaded".
C2_StaleFileRedownloadedOk ==
    (LibDone /\ FoundStale /\ lres # "NetErr") =>
        (RemovedThenOneTransfer /\ lres = "Ok")

\* C2, amended: a stale destination is deleted before the transfer starts and
\* exactly one transfer is made; the call returns "downloaded" exactly when
\* that transfer succeeds and the transferred file has the expected checksum,
\* the checksum-mismatch error when it succeeds with another checksum, and
\* the transfer's error when it fails.
C2_StaleFileRemovedThenTransferred ==
    /\ (lpc = "transfer" /\ FoundStale) =>
          (libFile = None /\ Last(llog) = "set_label"
             /\ Count(llog, {"remove_file"}) = 1)
    /\ (LibDone /\ FoundStale) =>
          /\ RemovedThenOneTransfer
          /\ lres = "Ok" <=>
                (Last(llog) = "download" /\ sha1sum(libFile[1]) = lsha1[1])
          /\ lres = "Mismatch" <=>
                (Last(llog) = "download" /\ sha1sum(libFile[1]) # lsha1[1])
          /\ lres = "NetErr" <=> Last(llog) = "download_failed"

C2_Witness ==
    /\ LibDone /\ FoundStale
    /\ llog = <<"remove_file", "set_label", "download">>
    /\ lres = "Ok"
    /\ libFile # file0

\* a transfer succeeded and stored a file with another checksum than expected
BadDownload ==
    /\ LibDone /\ Last(llog) = "download"
    /\ IsSome(lsha1) /\ sha1sum(libFile[1]) # lsha1[1]

\* C3 as stated: a bad download gives the mismatch error and the store holds
\* no side-file created by this call.
C3_BadDownloadLeavesNoSideFile ==
    BadDownload =>
        /\ lres = "Mismatch"
        /\ ~(side0 = None /\ IsSome(sha1File))

\* C3, amended: a bad download always gives the mismatch error.  With an
\* embedded checksum the call neither creates nor changes a side-file.
\* Otherwise the side-file (created by this call when the checksum came from
\* the sidecar) stays in the store; it holds the expected checksum, which is
\* not the checksum of the file left at the destination.
C3_BadDownloadIsFatal ==
    BadDownload =>
        /\ lres = "Mismatch"
        /\ IsSome(desc.sha1) => (sha1File = side0 /\ Count(llog, {"write_sha1"}) = 0)
        /\ ~IsSome(desc.sha1) =>
              /\ sha1File = lsha1
              /\ sha1File[1] # sha1sum(libFile[1])
              /\ Count(llog, {"write_sha1"}) = (IF side0 = None THEN 1 ELSE 0)

C3_Witness ==
    /\ BadDownload
    /\ lres = "Mismatch"
    /\ side0 = None /\ IsSome(sha1File)
    /\ llog = <<"fetch_sha1", "write_sha1", "set_label", "download">>

\* the sidecar request of the current call failed
FetchFailed == Count(llog, {"fetch_sha1"}) = 1 /\ lsha1 = None

\* C9: a failed sidecar fetch never fails the call and writes no side-file;
\* the call goes on without a checksum: an existing file is kept without any
\* transfer, a missing one is downloaded once and accepted whatever it holds.
\* (The only error left is that of the artifact transfer itself.)
C9_SidecarFailureNotFatal ==
    FetchFailed =>
        /\ sha1File = None /\ side0 = None
        /\ Count(llog, {"write_sha1"}) = 0
        /\ lres \in {"Pending", "Ok", "NetErr"}
        /\ lres = "NetErr" <=> Last(llog) = "download_failed"
        /\ LibDone =>
              IF IsSome(file0)
              THEN lres = "Ok" /\ libFile = file0 /\ llog = <<"fetch_sha1">>
              ELSE /\ Count(llog, TransferOps) = 1
                   /\ Count(llog, {"remove_file"}) = 0
                   /\ Last(llog) = "download" => (lres = "Ok" /\ IsSome(libFile))

C9_Witness ==
    /\ LibDone /\ FetchFailed
    /\ file0 = None
    /\ llog = <<"fetch_sha1", "set_label", "download">>
    /\ lres = "Ok" /\ libFile = Some(2)

\* ---- a call right after a successful call ----

\* the call before the last one returned success and knew the checksum
PreviousKnewAndSucceeded == calls >= 2 /\ pres = "Ok" /\ IsSome(psha1)

\* C13: when a call that knew the checksum has returned success, the next
\* call on the store it left never transfers the artifact and never changes
\* the destination file, and it returns success.
C13_SecondAcquireSkips ==
    PreviousKnewAndSucceeded =>
        /\ Count(llog, TransferOps) = 0
        /\ Count(llog, {"remove_file"}) = 0
        /\ libFile = file0
        /\ LibDone => lres = "Ok"

\* the second call has returned after a first call that transferred the
\* artifact and checked it
C13_Witness ==
    /\ PreviousKnewAndSucceeded /\ LibDone
    /\ Count(plog, {"download"}) = 1
    /\ lres = "Ok"

\* the second call has returned after a first call that kept the file it found
C13_WitnessSkipped ==
    /\ PreviousKnewAndSucceeded /\ LibDone
    /\ Count(plog, TransferOps) = 0
    /\ lres = "Ok"

\* =========================================================================
\* AssetObject::download
\* =========================================================================

\* the concurrently running download tasks
\* the hashes asset objects are declared with
AssetHashes == {sha1sum(c) : c \in Contents}

\* &self.hash[0..2]: the shard directory of an object
shard(hash) == SubSeq(hash, 1, 2)

InitAsset ==
    /\ assets \in {a \in [Tasks -> [hash : AssetHashes]] :
                      \A t, u \in Tasks : t # u => a[t].hash # a[u].hash}
    /\ objs \in [{assets[t].hash : t \in Tasks} ->
                    {None} \cup {Some(c) : c \in Contents}]
    /\ dirs \in {d \in SUBSET {shard(assets[t].hash) : t \in Tasks} :
                    \A h \in DOMAIN objs : IsSome(objs[h]) => shard(h) \in d}
    /\ objs0 = objs
    /\ apc = [t \in Tasks |-> "idle"]
    /\ ares = [t \in Tasks |-> "None"]
    /\ alog = [t \in Tasks |-> <<>>]
    /\ IdleMerge /\ IdleLibrary /\ IdleCosmetic /\ IdleArgs

\* lines 330-333: asset_folder.exists()
AssetStart(t) ==
    /\ apc[t] = "idle" /\ ares[t] = "None"
    /\ apc' = [apc EXCEPT ![t] =
                  IF shard(assets[t].hash) \in dirs THEN "check" ELSE "mkdir"]
    /\ UNCHANGED <<assets, dirs, objs, objs0, ares, alog>>
    /\ UNCHANGED notAsset

\* line 334: fs::create_dir(&asset_folder).await?, an error when the
\* directory exists by now
AssetCreateDir(t) ==
    /\ apc[t] = "mkdir"
    /\ IF shard(assets[t].hash) \in dirs
       THEN /\ apc' = [apc EXCEPT ![t] = "idle"]
            /\ ares' = [ares EXCEPT ![t] = "IoErr"]
            /\ dirs' = dirs
       ELSE /\ apc' = [apc EXCEPT ![t] = "check"]
            /\ ares' = ares
            /\ dirs' = dirs \cup {shard(assets[t].hash)}
    /\ alog' = [alog EXCEPT ![t] = Append(@, "create_dir")]
    /\ UNCHANGED <<assets, objs, objs0>>
    /\ UNCHANGED notAsset

\* lines 337-349: only the existence of asset_path is looked at; an absent
\* object gets the progress label and its transfer is started
AssetCheck(t) ==
    /\ apc[t] = "check"
    /\ IF IsSome(objs[assets[t].hash])
       THEN /\ apc' = [apc EXCEPT ![t] = "idle"]
            /\ ares' = [ares EXCEPT ![t] = "NotDownloaded"]
            /\ alog' = alog
       ELSE /\ apc' = [apc EXCEPT ![t] = "transfer"]
            /\ ares' = ares
            /\ alog' = [alog EXCEPT ![t] = Append(@, "set_label")]
    /\ UNCHANGED <<assets, dirs, objs, objs0>>
    /\ UNCHANGED notAsset

\* lines 343-346, success: the file holds what the server sent; Ok(true)
AssetTransferOk(t) ==
    /\ apc[t] = "transfer"
    /\ \E c \in Contents : objs' = [objs EXCEPT ![assets[t].hash] = Some(c)]
    /\ alog' = [alog EXCEPT ![t] = Append(@, "download")]
    /\ apc' = [apc EXCEPT ![t] = "idle"]
    /\ ares' = [ares EXCEPT ![t] = "Downloaded"]
    /\ UNCHANGED <<assets, dirs, objs0>>
    /\ UNCHANGED notAsset

\* line 343, failure: the error is returned with `?`; the destination may be
\* left absent or hold a partial file
AssetTransferFail(t) ==
    /\ apc[t] = "transfer"
    /\ \E f \in {None} \cup {Some(c) : c \in Contents} :
          objs' = [objs EXCEPT ![assets[t].hash] = f]
    /\ alog' = [alog EXCEPT ![t] = Append(@, "download_failed")]
    /\ apc' = [apc EXCEPT ![t] = "idle"]
    /\ ares' = [ares EXCEPT ![t] = "NetErr"]
    /\ UNCHANGED <<assets, dirs, objs0>>
    /\ UNCHANGED notAsset

NextAsset ==
    \/ \E t \in Tasks : AssetStart(t)
    \/ \E t \in Tasks : AssetCreateDir(t)
    \/ \E t \in Tasks : AssetCheck(t)
    \/ \E t \in Tasks : AssetTransferOk(t)
    \/ \E t \in Tasks : AssetTransferFail(t)

SpecAsset == InitAsset /\ [][NextAsset]_vars

\* ---- properties of AssetObject::download ----

AssetDone(t) == apc[t] = "idle" /\ ares[t] # "None"

\* C8: asset acquisition follows the library policy with the declared hash
\* as the expected checksum: a matching file is kept without a download, a
\* file with another checksum is deleted and downloaded again, and a
\* downloaded file with another checksum fails the call.
C8_AssetVerifiedAgainstHash ==
    \A t \in Tasks :
        LET h == assets[t].hash
            found == objs0[h]
        IN  AssetDone(t) =>
              /\ (IsSome(found) /\ sha1sum(found[1]) = h) =>
                    (ares[t] = "NotDownloaded" /\ alog[t] = <<>> /\ objs[h] = found)
              /\ (IsSome(found) /\ sha1sum(found[1]) # h) =>
                    Count(alog[t], TransferOps) = 1
              /\ (Last(alog[t]) = "download" /\ sha1sum(objs[h][1]) # h) =>
                    ares[t] \notin {"Downloaded", "NotDownloaded"}

\* ---- concurrent calls ----

\* what a call returns when no other call runs: the object found at the
\* start is kept, an absent one is transferred, which works or fails
AloneOutcomes(t) ==
    IF IsSome(objs0[assets[t].hash]) THEN {"NotDownloaded"}
    ELSE {"Downloaded", "NetErr"}

\* C15: two calls for objects with different hashes, run concurrently, each
\* end with an outcome they can have when run alone, whatever the
\* interleaving; calls that share a shard directory do not make one another
\* fail while creating it.
C15_ConcurrentAssetsIndependent ==
    \A t \in Tasks : AssetDone(t) => ares[t] \in AloneOutcomes(t)

\* =========================================================================
\* AssetObject::download_norisk_cosmetic
\* =========================================================================

\* lines 376-388: `download` is set when the file is absent or its checksum
\* differs from self.hash
cosmetic_download(file, hash) ==
    IF IsSome(file) THEN sha1sum(file[1]) # hash ELSE TRUE

InitCosmetic ==
    /\ cos \in [hash : AssetHashes]
    /\ cosFile \in {None} \cup {Some(c) : c \in Contents}
    /\ cosDir \in {d \in BOOLEAN : IsSome(cosFile) => d}
    /\ cpc = "idle" /\ cres = "None" /\ clog = <<>>
    /\ IdleMerge /\ IdleLibrary /\ IdleAsset /\ IdleArgs

\* lines 353-370: the options are loaded, the paths built, and
\* asset_path.exists() looked at
CosStart ==
    /\ cpc = "idle" /\ cres = "None"
    /\ cpc' = IF cosDir THEN "check" ELSE "mkdir"
    /\ UNCHANGED <<cos, cosDir, cosFile, cres, clog>>
    /\ UNCHANGED notCosmetic

\* line 371: fs::create_dir_all(&asset_path), no error for a directory that
\* exists
CosCreateDirAll ==
    /\ cpc = "mkdir"
    /\ cosDir' = TRUE
    /\ clog' = Append(clog, "create_dir_all")
    /\ cpc' = "check"
    /\ UNCHANGED <<cos, cosFile, cres>>
    /\ UNCHANGED notCosmetic

\* lines 374-389 and 398-400: Ok(false) when nothing is to be downloaded
CosCheck ==
    /\ cpc = "check"
    /\ IF cosmetic_download(cosFile, cos.hash)
       THEN cpc' = "download" /\ cres' = cres
       ELSE cpc' = "idle" /\ cres' = "NotDownloaded"
    /\ UNCHANGED <<cos, cosDir, cosFile, clog>>
    /\ UNCHANGED notCosmetic

\* (faulty variant: the transfer is started without the progress label)
CosLabel_silent ==
    /\ cpc = "download"
    /\ cpc' = "transfer"
    /\ UNCHANGED <<cos, cosDir, cosFile, cres, clog>>
    /\ UNCHANGED notCosmetic
\* line 391: the progress label, then the transfer is started
CosLabel ==
    /\ cpc = "download"
    /\ clog' = Append(clog, "set_label")
    /\ cpc' = "transfer"
    /\ UNCHANGED <<cos, cosDir, cosFile, cres>>
    /\ UNCHANGED notCosmetic

\* lines 394-397, success: the file holds what the server sent; Ok(true)
CosTransferOk ==
    /\ cpc = "transfer"
    /\ \E c \in Contents : cosFile' = Some(c)
    /\ clog' = Append(clog, "download")
    /\ cpc' = "idle" /\ cres' = "Downloaded"
    /\ UNCHANGED <<cos, cosDir>>
    /\ UNCHANGED notCosmetic

\* line 394, failure: the error is returned with `?`; the destination may be
\* left as it was or hold a partial file
CosTransferFail ==
    /\ cpc = "transfer"
    /\ \E f \in {cosFile} \cup {Some(c) : c \in Contents} : cosFile' = f
    /\ clog' = Append(clog, "download_failed")
    /\ cpc' = "idle" /\ cres' = "NetErr"
    /\ UNCHANGED <<cos, cosDir>>
    /\ UNCHANGED notCosmetic

NextCosmetic ==
    \/ CosStart
    \/ CosCreateDirAll
    \/ CosCheck
    \/ CosLabel
    \/ CosTransferOk
    \/ CosTransferFail

\* =========================================================================
\* The three download routines, one of them at a time
\* =========================================================================

InitAcquire == InitLibrary \/ InitAsset \/ InitCosmetic

NextAcquire ==
    \/ LibStart
    \/ LibLocalSha1
    \/ LibFetchSha1
    \/ LibWriteSha1
    \/ LibCheckExisting
    \/ LibRemove
    \/ LibLabel
    \/ LibTransferOk
    \/ LibTransferFail
    \/ LibVerify
    \/ \E t \in Tasks : AssetStart(t)
    \/ \E t \in Tasks : AssetCreateDir(t)
    \/ \E t \in Tasks : AssetCheck(t)
    \/ \E t \in Tasks : AssetTransferOk(t)
    \/ \E t \in Tasks : AssetTransferFail(t)
    \/ CosStart
    \/ CosCreateDirAll
    \/ CosCheck
    \/ CosLabel
    \/ CosTransferOk
    \/ CosTransferFail

SpecAcquire == InitAcquire /\ [][NextAcquire]_vars

\* a log in which every transfer comes right after a progress label, and no
\* label is left without its transfer unless that transfer is running
LabelledTransfers(log, transferring) ==
    /\ \A i \in DOMAIN log :
          log[i] \in TransferOps => (i > 1 /\ log[i - 1] = "set_label")
    /\ Count(log, {"set_label"})
          = Count(log, TransferOps) + (IF transferring THEN 1 ELSE 0)
    /\ transferring => Last(log) = "set_label"

\* C14: in each of the three download routines the progress label is
\* emitted before the transfer starts, once for each transfer, and a call
\* that ends without having downloaded has emitted no label.
C14_LabelBeforeEachTransfer ==
    /\ LabelledTransfers(llog, lpc = "transfer")
    /\ (LibDone /\ lres = "Ok" /\ Count(llog, TransferOps) = 0) =>
          Count(llog, {"set_label"}) = 0
    /\ \A t \in Tasks :
          /\ LabelledTransfers(alog[t], apc[t] = "transfer")
          /\ ares[t] = "NotDownloaded" => Count(alog[t], {"set_label"}) = 0
    /\ LabelledTransfers(clog, cpc = "transfer")
    /\ cres = "NotDownloaded" => Count(clog, {"set_label"}) = 0

\* a cosmetic call, its directory in place, has emitted the label and
\* transferred the file
C14_Witness ==
    /\ cres = "Downloaded"
    /\ cosDir
    /\ clog = <<"set_label", "download">>

\* a library call has removed a stale file and transferred the artifact
C14_WitnessLibrary ==
    /\ LibDone /\ lres = "Ok"
    /\ llog = <<"remove_file", "set_label", "download">>

\* both asset calls have returned, one having downloaded and one not
C14_WitnessAsset ==
    /\ ares[1] = "Downloaded" /\ alog[1] = <<"create_dir", "set_label", "download">>
    /\ ares[2] = "NotDownloaded" /\ alog[2] = <<>>

\* =========================================================================
\* ArgumentDeclaration::add_game_args_to_vec
\* =========================================================================

\* the characters of a Legacy argument string
Chars == {" ", "a", "b"}

\* strings are sequences of characters
Strings(n) == UNION {[1..k -> Chars] : k \in 0..n}

\* str::split(" "): the pieces between single spaces, empty pieces included
RECURSIVE str_split(_)
str_split(s) ==
    IF \E i \in DOMAIN s : s[i] = " "
    THEN LET i == CHOOSE k \in DOMAIN s :
                     s[k] = " " /\ \A m \in 1..(k - 1) : s[m] # " "
         IN  <<SubSeq(s, 1, i - 1)>> \o str_split(SubSeq(s, i + 1, Len(s)))
    ELSE <<s>>

\* the host the launcher runs on, as the rule interpreter sees it
HostOs == "linux"

\* rule_interpreter::check_condition, after section 4.1 of the specification:
\* the action of the last rule whose os and feature predicates all match, and
\* rules.is_empty() when no rule matches
rule_matches(rule, feats) ==
    /\ IsSome(rule.os) => rule.os[1] = HostOs
    /\ IsSome(rule.features) =>
          \A f \in DOMAIN rule.features[1] : (f \in feats) = rule.features[1][f]

RECURSIVE check_condition_from(_, _, _)
check_condition_from(rules, feats, acc) ==
    IF rules = <<>> THEN acc
    ELSE check_condition_from(Tail(rules), feats,
            IF rule_matches(Head(rules), feats)
            THEN Head(rules).action = "Allow" ELSE acc)

check_condition(rules, feats) == check_condition_from(rules, feats, rules = <<>>)

\* (faulty variant: the loop ends at the first entry whose rules fail)
RECURSIVE check_rules_and_add_break(_, _, _)
check_rules_and_add_break(command_arguments, args, feats) ==
    IF args = <<>> THEN command_arguments
    ELSE LET argument == Head(args)
         IN  IF IsSome(argument.rules) /\ ~check_condition(argument.rules[1], feats)
             THEN command_arguments
             ELSE check_rules_and_add_break(
                      IF argument.value.tag = "SINGLE"
                      THEN Append(command_arguments, argument.value.v)
                      ELSE command_arguments \o argument.value.v,
                      Tail(args), feats)

\* fn check_rules_and_add: entries whose rules fail are skipped, a SINGLE
\* value is pushed, a VEC value is appended
RECURSIVE check_rules_and_add(_, _, _)
check_rules_and_add(command_arguments, args, feats) ==
    IF args = <<>> THEN command_arguments
    ELSE LET argument == Head(args)
             skip == IsSome(argument.rules)
                        /\ ~check_condition(argument.rules[1], feats)
             added == IF skip THEN command_arguments
                      ELSE IF argument.value.tag = "SINGLE"
                           THEN Append(command_arguments, argument.value.v)
                           ELSE command_arguments \o argument.value.v
         IN  check_rules_and_add(added, Tail(args), feats)

\* fn add_game_args_to_vec
add_game_args_to_vec(self, command_arguments, feats) ==
    IF self.tag = "V14"
    THEN IF IsSome(self.minecraft_arguments)
         THEN [res |-> "Ok",
               out |-> command_arguments \o str_split(self.minecraft_arguments[1])]
         ELSE [res |-> "Err", out |-> command_arguments]
    ELSE [res |-> "Ok",
          out |-> check_rules_and_add(command_arguments, self.game, feats)]

\* format!("{}", n) of a non-negative integer: its decimal digits
DigitChars == <<"0", "1", "2", "3", "4", "5", "6", "7", "8", "9">>

RECURSIVE fmt_int(_)
fmt_int(n) ==
    IF n < 10 THEN <<DigitChars[n + 1]>>
    ELSE Append(fmt_int(n \div 10), DigitChars[(n % 10) + 1])

\* format!("{}", b) of a bool
fmt_bool(b) == IF b THEN "true" ELSE "false"

\* lines 131-139: the fixed tokens every jvm command line starts with.  A
\* token is a sequence of characters or of literal pieces.
jvm_preamble(token, param) ==
    << <<"-Xmx">> \o fmt_int(param.memory) \o <<"M">>,
       <<"-XX:+UnlockExperimentalVMOptions">>,
       <<"-XX:+UseG1GC">>,
       <<"-XX:G1NewSizePercent=20">>,
       <<"-XX:G1ReservePercent=20">>,
       <<"-XX:MaxGCPauseMillis=50">>,
       <<"-XX:G1HeapRegionSize=32M">>,
       <<"-Dnorisk.token=", token>>,
       <<"-Dnorisk.experimental=", fmt_bool(param.dev_mode)>> >>

\* lines 140-145: the pieces of custom_java_args.split(" ") that are neither
\* " " nor ""
KeptCustomArg(arg) == arg # <<" ">> /\ arg # <<>>
\* (faulty variant: the pieces are not filtered)
custom_java_tokens_unfiltered(s) == str_split(s)
custom_java_tokens(s) == SelectSeq(str_split(s), KeptCustomArg)

\* line 148: what a Legacy declaration appends
legacy_jvm_tokens ==
    << <<"-Djava.library.path=${natives_directory}">>,
       <<"-cp">>,
       <<"${classpath}">> >>

\* fn add_jvm_args_to_vec
add_jvm_args_to_vec(self, token, command_arguments, param, feats) ==
    LET pushed == command_arguments \o jvm_preamble(token, param)
                     \o custom_java_tokens(param.custom_java_args)
    IN  IF self.tag = "V14"
        THEN [res |-> "Ok", out |-> pushed \o legacy_jvm_tokens]
        ELSE [res |-> "Ok", out |-> check_rules_and_add(pushed, self.jvm, feats)]

\* ---- argument declarations fed to the builders ----
FeatureNames == {"is_demo_user"}

SINGLE(v) == [tag |-> "SINGLE", v |-> v]
VEC(v) == [tag |-> "VEC", v |-> v]
Rule(action, os, feats) == [action |-> action, os |-> os, features |-> feats]

ArgumentEntries ==
    { [rules |-> None, value |-> SINGLE(<<"a">>)],
      [rules |-> Some(<<>>), value |-> VEC(<<<<"b">>, <<"a", "b">>>>)],
      [rules |-> Some(<<Rule("Allow", None, Some([is_demo_user |-> TRUE]))>>),
       value |-> VEC(<<<<"a", "a">>, <<"b", "b">>>>)],
      [rules |-> Some(<<Rule("Allow", Some("osx"), None)>>),
       value |-> SINGLE(<<"b", "a">>)],
      [rules |-> Some(<<Rule("Allow", None, None),
                        Rule("Disallow", Some("linux"),
                             Some([is_demo_user |-> FALSE]))>>),
       value |-> SINGLE(<<"b">>)] }

ArgumentLists == UNION {[1..k -> ArgumentEntries] : k \in 0..MaxLen}

\* the jvm list of a Structured declaration is its game list reversed, so
\* that the two lists of one declaration differ
Reversed(q) == [i \in 1..Len(q) |-> q[Len(q) + 1 - i]]

Declarations ==
    {V14(None)} \cup {V14(Some(s)) : s \in Strings(MaxStrLen)}
    \cup {V21(g, Reversed(g)) : g \in ArgumentLists}

\* the launches: two settings of memory and dev_mode, any custom_java_args
Settings == {[memory |-> 512, dev_mode |-> FALSE], [memory |-> 4096, dev_mode |-> TRUE]}

LaunchParameter(m, s) ==
    [memory |-> m.memory, dev_mode |-> m.dev_mode, custom_java_args |-> s]

\* every declaration with one custom_java_args string, and every
\* custom_java_args string with the Legacy declaration and the one-entry
\* Structured declarations
InitArgs ==
    /\ \/ /\ decl \in Declarations
          /\ parameter \in {LaunchParameter(m, <<"a", " ", " ", "b">>) : m \in Settings}
       \/ /\ decl \in {V14(None)}
                   \cup {V21(<<e>>, <<e>>) : e \in ArgumentEntries}
          /\ parameter \in {LaunchParameter(m, s) :
                                m \in Settings, s \in Strings(MaxStrLen)}
    /\ norisk_token = IF parameter.dev_mode THEN "dev-token" ELSE "token"
    /\ features \in SUBSET FeatureNames
    /\ cmd \in {<<>>, <<<<"a">>>>}
    /\ cmd0 = cmd
    /\ gres = "None"
    /\ jcmd = cmd
    /\ jres = "None"
    /\ IdleMerge /\ IdleLibrary /\ IdleAsset /\ IdleCosmetic

AddGameArgs ==
    /\ gres = "None"
    /\ LET r == add_game_args_to_vec(decl, cmd, features)
       IN  /\ cmd' = r.out
           /\ gres' = r.res
    /\ UNCHANGED <<decl, features, cmd0, norisk_token, parameter, jcmd, jres>>
    /\ UNCHANGED notArgs

AddJvmArgs ==
    /\ jres = "None"
    /\ LET r == add_jvm_args_to_vec(decl, norisk_token, jcmd, parameter, features)
       IN  /\ jcmd' = r.out
           /\ jres' = r.res
    /\ UNCHANGED <<decl, features, cmd, cmd0, gres, norisk_token, parameter>>
    /\ UNCHANGED notArgs

NextArgs ==
    \/ AddGameArgs
    \/ AddJvmArgs

SpecArgs == InitArgs /\ [][NextArgs]_vars

\* ---- properties of add_game_args_to_vec ----

\* the maximal runs of non-space characters of s, in order
RECURSIVE Words(_)
Words(s) ==
    IF s = <<>> THEN <<>>
    ELSE IF Head(s) = " " THEN Words(Tail(s))
    ELSE LET n == CHOOSE k \in 1..Len(s) :
                     /\ \A m \in 1..k : s[m] # " "
                     /\ (k = Len(s) \/ s[k + 1] = " ")
         IN  <<SubSeq(s, 1, n)>> \o Words(SubSeq(s, n + 1, Len(s)))

\* C10: for a Legacy declaration the call appends exactly the non-empty
\* tokens of the argument string, in order, and never an empty token; it
\* fails when the string is absent.
C10_LegacyTokensNonEmpty ==
    (gres # "None" /\ decl.tag = "V14") =>
        IF IsSome(decl.minecraft_arguments)
        THEN /\ gres = "Ok"
             /\ cmd = cmd0 \o Words(decl.minecraft_arguments[1])
             /\ \A i \in DOMAIN cmd : cmd[i] # <<>>
        ELSE gres = "Err" /\ cmd = cmd0

\* ---- properties of the Structured builders ----

\* an entry is included when it carries no rules, when its rule list is empty,
\* or when its rule list evaluates to true for the features
Included(argument, feats) ==
    \/ argument.rules = None
    \/ argument.rules = Some(<<>>)
    \/ check_condition(argument.rules[1], feats)

\* the tokens of an entry: one for a single value, all of a list value
EntryTokens(argument) ==
    IF argument.value.tag = "SINGLE" THEN <<argument.value.v>> ELSE argument.value.v

\* the tokens of the included entries of a list, in declaration order
RECURSIVE Survivors(_, _)
Survivors(args, feats) ==
    IF args = <<>> THEN <<>>
    ELSE (IF Included(Head(args), feats) THEN EntryTokens(Head(args)) ELSE <<>>)
            \o Survivors(Tail(args), feats)

\* the number of tokens in jcmd before the declaration's own: those already
\* there, the nine fixed ones, and the words of custom_java_args
JvmPrefixLen == Len(cmd0) + 9 + Len(Words(parameter.custom_java_args))

\* C11: for a Structured declaration both builders succeed and append, in
\* declaration order, exactly the tokens of the entries that carry no rules
\* or whose rule list evaluates to true (an empty rule list included); a list
\* value contributes all its tokens consecutively, an excluded entry none.
C11_StructuredTokensFiltered ==
    decl.tag = "V21" =>
        /\ gres # "None" =>
              /\ gres = "Ok"
              /\ cmd = cmd0 \o Survivors(decl.game, features)
        /\ jres # "None" =>
              /\ jres = "Ok"
              /\ Len(jcmd) >= JvmPrefixLen
              /\ SubSeq(jcmd, JvmPrefixLen + 1, Len(jcmd))
                    = Survivors(decl.jvm, features)

\* both builders have run on a Structured declaration whose game list is an
\* excluded entry followed by a list-valued entry with an empty rule list
C11_Witness ==
    /\ decl.tag = "V21" /\ gres = "Ok" /\ jres = "Ok"
    /\ Len(decl.game) = 2
    /\ ~Included(decl.game[1], features)
    /\ decl.game[2].rules = Some(<<>>)
    /\ decl.game[2].value.tag = "VEC"
    /\ cmd = cmd0 \o decl.game[2].value.v
    /\ decl.jvm # decl.game

\* ---- properties of add_jvm_args_to_vec ----

\* the nine tokens every jvm command line starts with: the heap flag of the
\* memory in MB, the garbage-collector flags, the token and dev-mode properties
HeapFlag == <<"-Xmx">> \o fmt_int(parameter.memory) \o <<"M">>

CollectorFlags ==
    << <<"-XX:+UnlockExperimentalVMOptions">>, <<"-XX:+UseG1GC">>,
       <<"-XX:G1NewSizePercent=20">>, <<"-XX:G1ReservePercent=20">>,
       <<"-XX:MaxGCPauseMillis=50">>, <<"-XX:G1HeapRegionSize=32M">> >>

TokenProperty == <<"-Dnorisk.token=", norisk_token>>

DevModeProperty ==
    <<"-Dnorisk.experimental=", IF parameter.dev_mode THEN "true" ELSE "false">>

CommonJvmTokens ==
    <<HeapFlag>> \o CollectorFlags \o <<TokenProperty, DevModeProperty>>
        \o Words(parameter.custom_java_args)

\* what jcmd holds beyond what it held before the call
JvmEmitted == SubSeq(jcmd, Len(cmd0) + 1, Len(jcmd))

NativesPlaceholder == <<"-Djava.library.path=${natives_directory}">>
ClasspathPlaceholder == <<"${classpath}">>

\* C12 as stated: the common tokens, then for a Legacy declaration exactly
\* two fixed tokens, the native-library path and classpath placeholders.
C12_LegacyEndsWithTwoTokens ==
    jres # "None" =>
        /\ SubSeq(jcmd, 1, Len(cmd0)) = cmd0
        /\ SubSeq(JvmEmitted, 1, Len(CommonJvmTokens)) = CommonJvmTokens
        /\ decl.tag = "V14" =>
              JvmEmitted = CommonJvmTokens
                             \o <<NativesPlaceholder, ClasspathPlaceholder>>

\* C12: the call emits, in order, the heap flag, the collector flags, the
\* token property, the dev-mode property and the non-empty words of
\* custom_java_args; for a Legacy declaration these are followed by exactly
\* three fixed tokens: the native-library path placeholder, "-cp" and the
\* classpath placeholder.
C12_LegacyEndsWithThreeTokens ==
    jres # "None" =>
        /\ jres = "Ok"
        /\ SubSeq(jcmd, 1, Len(cmd0)) = cmd0
        /\ SubSeq(JvmEmitted, 1, Len(CommonJvmTokens)) = CommonJvmTokens
        /\ decl.tag = "V14" =>
              JvmEmitted = CommonJvmTokens
                             \o <<NativesPlaceholder, <<"-cp">>, ClasspathPlaceholder>>

\* a Legacy call whose custom_java_args holds two words and a doubled space
C12_Witness ==
    /\ decl.tag = "V14" /\ jres = "Ok"
    /\ Len(Words(parameter.custom_java_args)) = 2
    /\ \E i \in 1..(Len(parameter.custom_java_args) - 1) :
          parameter.custom_java_args[i] = " " /\ parameter.custom_java_args[i + 1] = " "
    /\ Len(JvmEmitted) = 14

====
